---- MODULE Spec2Model ----
(***************************************************************************)
(* Model of server.js (BFP backend): the file-backed current store,        *)
(* archive and renewal history log, and the request handlers that read     *)
(* and write them.                                                         *)
(*                                                                         *)
(* Strings are sequences of character tokens so that trimming, URI         *)
(* decoding and template strings are computed rather than assumed.  A      *)
(* missing (undefined) field is the one-token sequence Undef.  Numbers     *)
(* that end up in JSON (ids) are kept as their decimal digit strings.      *)
(* Every handler of server.js is synchronous (readFileSync/writeFileSync,  *)
(* no await), so one handler is one atomic action.  A handler runs within  *)
(* one instant of the wall clock: every Date.now() and new Date() of one   *)
(* request returns the same value.  The wall clock is not monotonic: two   *)
(* requests may read any two instants of Times.                            *)
(***************************************************************************)
EXTENDS Integers, Sequences, FiniteSets, TLC

VARIABLES records, archive, history, req, res

vars == <<records, archive, history, req, res>>

\* ------------------------------------------------------------------------
\* Bounds of the model
\* ------------------------------------------------------------------------
MaxTime == 2
MaxRecords == 2
MaxHistory == 4
MaxItems == 3

Times == 1..MaxTime

\* ------------------------------------------------------------------------
\* Strings
\* ------------------------------------------------------------------------
SP == " "
Undef == <<"undefined">>
Null == [null |-> TRUE]

Digits == <<"0", "1", "2", "3", "4", "5", "6", "7", "8", "9">>
DigitVal(c) == CHOOSE d \in 0..9 : Digits[d + 1] = c

RECURSIVE NumStr(_)
\* String(n) of a non-negative integer
NumStr(n) == IF n < 10 THEN <<Digits[n + 1]>> ELSE NumStr(n \div 10) \o <<Digits[(n % 10) + 1]>>

\* new Date(t).toISOString(): fixed width, so string order is time order
toISOString(t) == <<Digits[((t \div 10) % 10) + 1], Digits[(t % 10) + 1]>>

\* Date.parse of a toISOString value
RECURSIVE IsoTime(_)
IsoTime(str) == IF str = <<>> THEN 0 ELSE 10 * IsoTime(SubSeq(str, 1, Len(str) - 1)) + DigitVal(str[Len(str)])

\* JS truthiness of a string-or-undefined value
Truthy(v) == v # Undef /\ v # <<>>

\* a || b
Or(a, b) == IF Truthy(a) THEN a ELSE b

\* a ?? b
Coalesce(a, b) == IF a # Undef THEN a ELSE b

RECURSIVE TrimStart(_)
TrimStart(s) == IF s # <<>> /\ Head(s) = SP THEN TrimStart(Tail(s)) ELSE s

RECURSIVE TrimEnd(_)
TrimEnd(s) == IF s # <<>> /\ s[Len(s)] = SP THEN TrimEnd(SubSeq(s, 1, Len(s) - 1)) ELSE s

\* String.prototype.trim
Trim(s) == TrimEnd(TrimStart(s))

\* const normalize = (v) => String(v ?? "").trim();
normalize(v) == Trim(Coalesce(v, <<>>))

normalizeEntityKey(entityKey) == normalize(entityKey)

\* String.prototype.localeCompare on the strings changedAt can hold
\* (digit strings and ""): -1, 0 or 1
RECURSIVE localeCompare(_, _)
localeCompare(a, b) ==
  IF a = <<>> /\ b = <<>> THEN 0
  ELSE IF a = <<>> THEN -1
  ELSE IF b = <<>> THEN 1
  ELSE IF DigitVal(Head(a)) < DigitVal(Head(b)) THEN -1
  ELSE IF DigitVal(Head(a)) > DigitVal(Head(b)) THEN 1
  ELSE localeCompare(Tail(a), Tail(b))

\* String.prototype.toUpperCase on the action strings
toUpperCase(a) ==
  IF a = "renewed" THEN "RENEWED"
  ELSE IF a = "previous" THEN "PREVIOUS"
  ELSE a

\* ------------------------------------------------------------------------
\* decodeURIComponent
\* ------------------------------------------------------------------------
URIError == <<"URIError">>
HexDigits == {"1", "2", "3", "4", "5", "6", "7"}

\* the character with code 0x h1 h2 (ASCII range: one byte, always valid)
PctChar(h1, h2) == IF h1 = "4" /\ h2 = "7" THEN "G" ELSE "\\x" \o h1 \o h2

RECURSIVE decodeURIComponent(_)
decodeURIComponent(s) ==
  IF s = <<>> THEN <<>>
  ELSE IF Head(s) = "%"
    THEN IF Len(s) >= 3 /\ s[2] \in HexDigits /\ s[3] \in HexDigits
           THEN LET rest == decodeURIComponent(SubSeq(s, 4, Len(s)))
                IN IF rest = URIError THEN URIError ELSE <<PctChar(s[2], s[3])>> \o rest
           ELSE URIError
    ELSE LET rest == decodeURIComponent(Tail(s))
         IN IF rest = URIError THEN URIError ELSE <<Head(s)>> \o rest

\* ------------------------------------------------------------------------
\* Records
\* ------------------------------------------------------------------------
\* A record-like object.  fsicAppNo and ownerName stand for the allow-listed
\* inspection fields (with their legacy aliases), junk for any field outside
\* the allow-list.
Blank ==
  [id |-> Undef, entityKey |-> Undef,
   fsicAppNo |-> Undef, FSIC_APP_NO |-> Undef, FSIC_NUMBER |-> Undef,
   ownerName |-> Undef, OWNERS_NAME |-> Undef,
   teamLeader |-> Undef, createdAt |-> Undef, renewedAt |-> Undef,
   updatedAt |-> Undef, junk |-> Undef]

\* a variant of ensureEntityKey that derives the key again for a record
\* that already carries one
ensureEntityKeyRecompute(r, now) ==
  IF r = Null THEN r
  ELSE LET fsic == normalize(Or(Or(r.fsicAppNo, r.FSIC_APP_NO), r.FSIC_NUMBER))
       IN [r EXCEPT !.entityKey =
             IF Truthy(fsic) THEN <<"fsic:">> \o fsic
             ELSE <<"rec:">> \o Or(r.id, NumStr(now))]

\* a variant of ensureEntityKey that reads fsicAppNo only
ensureEntityKeyNoAlias(r, now) ==
  IF r = Null THEN r
  ELSE IF Truthy(r.entityKey) THEN r
  ELSE LET fsic == normalize(r.fsicAppNo)
       IN [r EXCEPT !.entityKey =
             IF Truthy(fsic) THEN <<"fsic:">> \o fsic
             ELSE <<"rec:">> \o Or(r.id, NumStr(now))]

\* a variant of ensureEntityKey whose rec: key is always the timestamp
ensureEntityKeyTimestamp(r, now) ==
  IF r = Null THEN r
  ELSE IF Truthy(r.entityKey) THEN r
  ELSE LET fsic == normalize(Or(Or(r.fsicAppNo, r.FSIC_APP_NO), r.FSIC_NUMBER))
       IN [r EXCEPT !.entityKey =
             IF Truthy(fsic) THEN <<"fsic:">> \o fsic
             ELSE <<"rec:">> \o NumStr(now)]

ensureEntityKey(r, now) ==
  IF r = Null THEN r
  ELSE IF Truthy(r.entityKey) THEN r
  ELSE LET fsic == normalize(Or(Or(r.fsicAppNo, r.FSIC_APP_NO), r.FSIC_NUMBER))
       IN [r EXCEPT !.entityKey =
             IF Truthy(fsic) THEN <<"fsic:">> \o fsic
             ELSE <<"rec:">> \o Or(r.id, NumStr(now))]

\* list.map(ensureEntityKey)
MapEnsure(list, now) == [i \in 1..Len(list) |-> ensureEntityKey(list[i], now)]

\* the allow-listed fields of obj, "" when missing
pickAllowedRecordFields(obj) ==
  [fsicAppNo |-> Coalesce(Coalesce(Coalesce(obj.fsicAppNo, obj.FSIC_APP_NO), obj.FSIC_NUMBER), <<>>),
   ownerName |-> Coalesce(Coalesce(obj.ownerName, obj.OWNERS_NAME), <<>>)]

\* updatedRecord || {}
OrEmpty(obj) == IF obj = Null THEN Blank ELSE obj

\* a variant of buildRenewedRecord that lets the key carried by
\* updatedRecord override the effective key
buildRenewedRecordOwnKey(entityKey, updatedRecord, now) ==
  LET base == pickAllowedRecordFields(OrEmpty(updatedRecord))
  IN ensureEntityKey(
       [Blank EXCEPT !.id = NumStr(now),
                     !.entityKey = Or(OrEmpty(updatedRecord).entityKey, entityKey),
                     !.fsicAppNo = base.fsicAppNo,
                     !.ownerName = base.ownerName,
                     !.teamLeader = Or(OrEmpty(updatedRecord).teamLeader, <<>>),
                     !.renewedAt = toISOString(now),
                     !.createdAt = toISOString(now)],
       now)

\* a variant of buildRenewedRecord that spreads updatedRecord instead of
\* its allow-listed fields
buildRenewedRecordSpread(entityKey, updatedRecord, now) ==
  LET base == pickAllowedRecordFields(OrEmpty(updatedRecord))
  IN ensureEntityKey(
       [OrEmpty(updatedRecord) EXCEPT
                     !.id = NumStr(now),
                     !.entityKey = entityKey,
                     !.fsicAppNo = base.fsicAppNo,
                     !.ownerName = base.ownerName,
                     !.teamLeader = Or(OrEmpty(updatedRecord).teamLeader, <<>>),
                     !.renewedAt = toISOString(now),
                     !.createdAt = toISOString(now)],
       now)

buildRenewedRecord(entityKey, updatedRecord, now) ==
  LET base == pickAllowedRecordFields(OrEmpty(updatedRecord))
  IN ensureEntityKey(
       [Blank EXCEPT !.id = NumStr(now),
                     !.entityKey = entityKey,
                     !.fsicAppNo = base.fsicAppNo,
                     !.ownerName = base.ownerName,
                     !.teamLeader = Or(OrEmpty(updatedRecord).teamLeader, <<>>),
                     !.renewedAt = toISOString(now),
                     !.createdAt = toISOString(now)],
       now)

\* ------------------------------------------------------------------------
\* Renewal reconciler
\* ------------------------------------------------------------------------
RECURSIVE InsertSortedBeforeEqual(_, _)
\* a variant of InsertSorted that is not stable: e goes before the
\* elements that compare equal to it
InsertSortedBeforeEqual(sorted, e) ==
  IF sorted = <<>> THEN <<e>>
  ELSE IF localeCompare(Or(Head(sorted).changedAt, <<>>), Or(e.changedAt, <<>>)) >= 0
    THEN <<e>> \o sorted
    ELSE <<Head(sorted)>> \o InsertSortedBeforeEqual(Tail(sorted), e)

RECURSIVE InsertSorted(_, _)
\* insert e after every element that does not compare greater than it
InsertSorted(sorted, e) ==
  IF sorted = <<>> THEN <<e>>
  ELSE IF localeCompare(Or(Head(sorted).changedAt, <<>>), Or(e.changedAt, <<>>)) > 0
    THEN <<e>> \o sorted
    ELSE <<Head(sorted)>> \o InsertSorted(Tail(sorted), e)

RECURSIVE SortByChangedAt(_)
\* Array.prototype.sort (stable) ascending by changedAt
SortByChangedAt(list) ==
  IF list = <<>> THEN <<>>
  ELSE InsertSorted(SortByChangedAt(SubSeq(list, 1, Len(list) - 1)), list[Len(list)])

\* a variant of IsRenewedFor that does not compare the key
IsRenewedForAnyKey(h, ek) == toUpperCase(h.action) = "RENEWED"

IsRenewedFor(h, ek) ==
  normalizeEntityKey(h.entityKey) = ek /\ toUpperCase(h.action) = "RENEWED"

\* a variant of getLatestRenewedByEntityKey that takes the last matching
\* event of the log without sorting
getLatestRenewedUnsorted(entityKey, hist, now) ==
  LET ek == normalizeEntityKey(entityKey)
      renewed == SelectSeq(hist, LAMBDA h : IsRenewedFor(h, ek))
  IN IF ~Truthy(ek) THEN Null
     ELSE IF renewed = <<>> THEN Null
     ELSE ensureEntityKey(renewed[Len(renewed)].data, now)

\* a variant of getLatestRenewedByEntityKey that takes the first event of
\* the sorted list
getLatestRenewedFirst(entityKey, hist, now) ==
  LET ek == normalizeEntityKey(entityKey)
      renewed == SortByChangedAt(SelectSeq(hist, LAMBDA h : IsRenewedFor(h, ek)))
  IN IF ~Truthy(ek) THEN Null
     ELSE IF renewed = <<>> THEN Null
     ELSE ensureEntityKey(renewed[1].data, now)

getLatestRenewedByEntityKey(entityKey, hist, now) ==
  LET ek == normalizeEntityKey(entityKey)
      renewed == SortByChangedAt(SelectSeq(hist, LAMBDA h : IsRenewedFor(h, ek)))
  IN IF ~Truthy(ek) THEN Null
     ELSE IF renewed = <<>> THEN Null
     ELSE ensureEntityKey(renewed[Len(renewed)].data, now)

\* ------------------------------------------------------------------------
\* Storage
\* ------------------------------------------------------------------------
\* writeJSON either succeeds or throws leaving the file as it was ("eio")
IOs == {"ok", "eio"}

Response(status, success, message, recs) ==
  [status |-> status, success |-> success, message |-> message, records |-> recs,
   month |-> <<>>, archivedCount |-> 0]

RECURSIVE SumLen(_, _)
SumLen(arch, S) ==
  IF S = {} THEN 0
  ELSE LET m == CHOOSE x \in S : TRUE
       IN Len(arch[m]) + SumLen(arch, S \ {m})

\* number of records held by the current store and the archive
StoredCount == Len(records) + SumLen(archive, DOMAIN archive)

\* number of stored records and renewals the model holds
ItemCount == StoredCount + (Len(history) \div 2)

\* archive[month] || []
Bucket(arch, month) == IF month \in DOMAIN arch THEN arch[month] ELSE <<>>

\* archive[month] = list
SetBucket(arch, month, list) ==
  [m \in (DOMAIN arch) \cup {month} |-> IF m = month THEN list ELSE arch[m]]

\* `${now.getFullYear()}-${String(now.getMonth() + 1).padStart(2, "0")}`:
\* two consecutive instants of the model fall in one month
MonthKey(t) == <<"m">> \o NumStr((t + 1) \div 2)

\* ------------------------------------------------------------------------
\* Request payloads
\* ------------------------------------------------------------------------
sG == <<"G">>
sGpad == <<SP, "G", SP>>
sPct == <<"%", "4", "7">>
keyG == <<"fsic:", "G">>
keyGpad == <<SP, "fsic:", "G", SP>>
keyPct == <<"fsic:", "%", "4", "7">>
keyRec7 == <<"rec:", "7">>
Ann == <<"Ann">>
Bob == <<"Bob">>

PostBodies ==
  { [Blank EXCEPT !.fsicAppNo = sGpad, !.ownerName = Ann, !.junk = <<"x">>],
    [Blank EXCEPT !.fsicAppNo = sPct, !.ownerName = Bob],
    [Blank EXCEPT !.entityKey = <<SP>>, !.ownerName = Ann] }

old1 == [Blank EXCEPT !.id = <<"1">>, !.fsicAppNo = sG, !.ownerName = Ann]
oldSpace == [Blank EXCEPT !.id = <<"1">>, !.entityKey = <<SP>>]
oldPct == [Blank EXCEPT !.id = <<"2">>, !.entityKey = keyPct, !.fsicAppNo = sPct]
upd1 == [Blank EXCEPT !.fsicAppNo = sG, !.ownerName = Bob]
upd7 == [Blank EXCEPT !.id = <<"7">>, !.entityKey = keyRec7, !.fsicAppNo = <<"H">>,
                      !.teamLeader = <<"Lee">>, !.junk = <<"x">>]
updSpace == [Blank EXCEPT !.entityKey = <<SP>>]

RenewBody(entityKey, source, oldRecord, updatedRecord) ==
  [entityKey |-> entityKey, source |-> source,
   oldRecord |-> oldRecord, updatedRecord |-> updatedRecord]

RenewBodies ==
  { RenewBody(Undef, Undef, old1, upd1),
    RenewBody(keyGpad, <<"Manual">>, oldPct, upd7),
    RenewBody(Undef, <<>>, oldPct, upd1),
    RenewBody(Undef, <<"Manual">>, oldSpace, upd7),
    RenewBody(Undef, Undef, Null, upd1),
    RenewBody(keyG, Undef, old1, Null),
    RenewBody(<<SP>>, Undef, oldSpace, updSpace) }

\* keys looked up by clients
LookupKeys == {keyGpad, keyPct, <<SP>>, <<"fsic:", "%">>}

ExportMonths == {MonthKey(t) : t \in Times} \cup {<<>>}

\* ------------------------------------------------------------------------
\* Initial state: ensureFile creates the files
\* ------------------------------------------------------------------------
Init ==
  /\ records = <<>>
  /\ archive = <<>>
  /\ history = <<>>
  /\ req = [op |-> "start"]
  /\ res = Response(0, FALSE, "", <<>>)

\* ensureEntityKey reads Date.now() only for a record without key, fsic
\* number and id
NeedsNow(r) ==
  /\ r # Null
  /\ ~Truthy(r.entityKey)
  /\ ~Truthy(normalize(Or(Or(r.fsicAppNo, r.FSIC_APP_NO), r.FSIC_NUMBER)))
  /\ ~Truthy(r.id)

\* ------------------------------------------------------------------------
\* POST /records
\* ------------------------------------------------------------------------
PostRecord(body, now, io) ==
  LET list == MapEnsure(records, now)
      allowed == pickAllowedRecordFields(body)
      newRecord == ensureEntityKey(
        [Blank EXCEPT !.id = NumStr(now),
                      !.createdAt = toISOString(now),
                      !.fsicAppNo = allowed.fsicAppNo,
                      !.ownerName = allowed.ownerName,
                      !.entityKey = body.entityKey],
        now)
  IN /\ StoredCount < MaxRecords
     /\ ItemCount < MaxItems
     /\ req' = [op |-> "post", body |-> body]
     /\ UNCHANGED <<archive, history>>
     /\ IF io = "ok"
          THEN /\ records' = Append(list, newRecord)
               /\ res' = Response(200, TRUE, "", <<newRecord>>)
          ELSE /\ res' = Response(500, FALSE, "Add record failed", <<>>)
               /\ UNCHANGED records

\* ------------------------------------------------------------------------
\* POST /records/close-month
\* ------------------------------------------------------------------------
\* a variant of NoRecords that never takes the early return
NoRecordsNever(list) == FALSE

\* if (!records.length)
NoRecords(list) == Len(list) = 0

\* a variant of ArchiveWith that replaces the bucket of the month
ArchiveOverwrite(arch, monthKey, list) == SetBucket(arch, monthKey, list)

\* a variant of ArchiveWith that writes an archive holding the bucket of
\* the month only
ArchiveOnlyMonth(arch, monthKey, list) ==
  SetBucket(<<>>, monthKey, Bucket(arch, monthKey) \o list)

\* archive[monthKey] = [...(archive[monthKey] || []), ...records]
ArchiveWith(arch, monthKey, list) ==
  SetBucket(arch, monthKey, Bucket(arch, monthKey) \o list)

CloseMonth(now, ioArchive, ioData) ==
  LET list == MapEnsure(records, now)
      monthKey == MonthKey(now)
      newArchive == ArchiveWith(archive, monthKey, list)
  IN /\ req' = [op |-> "closeMonth"]
     /\ UNCHANGED history
     /\ IF NoRecords(list)
          THEN /\ res' = Response(200, FALSE, "No records", <<>>)
               /\ UNCHANGED <<records, archive>>
          ELSE IF ioArchive = "eio"
            THEN /\ res' = Response(500, FALSE, "Close month failed", <<>>)
                 /\ UNCHANGED <<records, archive>>
            ELSE IF ioData = "eio"
              THEN /\ StoredCount + Len(list) <= MaxRecords
                   /\ ItemCount + Len(list) <= MaxItems
                   /\ archive' = newArchive
                   /\ res' = Response(500, FALSE, "Close month failed", <<>>)
                   /\ UNCHANGED records
              ELSE /\ archive' = newArchive
                   /\ records' = <<>>
                   /\ res' = [Response(200, TRUE, "", <<>>) EXCEPT
                                !.month = monthKey, !.archivedCount = Len(list)]

\* ------------------------------------------------------------------------
\* POST /records/renew
\* ------------------------------------------------------------------------
KeyOf(r) == IF r = Null THEN Undef ELSE r.entityKey

HistoryEvent(entityKey, source, changedAt, action, data) ==
  [entityKey |-> entityKey, source |-> source, changedAt |-> changedAt,
   action |-> action, data |-> data]

\* a variant of MissingPayload that only requires the key
MissingPayloadKeyOnly(entityKey, oldRecord, updatedRecord) == ~Truthy(entityKey)

\* if (!entityKey || !oldRecord || !updatedRecord)
MissingPayload(entityKey, oldRecord, updatedRecord) ==
  ~Truthy(entityKey) \/ oldRecord = Null \/ updatedRecord = Null

\* a variant of PushRenewal that pushes the RENEWED event first
PushRenewalRenewedFirst(hist, entityKey, source, now, oldRecord, newRecord) ==
  hist \o << HistoryEvent(entityKey, <<"Renewed">>, now, "RENEWED", newRecord),
             HistoryEvent(entityKey, Or(source, <<"Unknown">>), now, "PREVIOUS", oldRecord) >>

\* a variant of PushRenewal that gives the RENEWED event the source of the
\* request
PushRenewalSuppliedSource(hist, entityKey, source, now, oldRecord, newRecord) ==
  hist \o << HistoryEvent(entityKey, Or(source, <<"Unknown">>), now, "PREVIOUS", oldRecord),
             HistoryEvent(entityKey, Or(source, <<"Renewed">>), now, "RENEWED", newRecord) >>

\* the two history.push calls
PushRenewal(hist, entityKey, source, now, oldRecord, newRecord) ==
  hist \o << HistoryEvent(entityKey, Or(source, <<"Unknown">>), now, "PREVIOUS", oldRecord),
             HistoryEvent(entityKey, <<"Renewed">>, now, "RENEWED", newRecord) >>

\* a variant of PersistHistory that writes the file after each push, so
\* that a failure of the second write leaves the first event in the file
PersistHistoryEachPush(stored, pushed, io) ==
  IF io = "ok" THEN pushed ELSE SubSeq(pushed, 1, Len(stored) + 1)

\* writeJSON(HISTORY_FILE, history): the content of the file afterwards
PersistHistory(stored, pushed, io) == IF io = "ok" THEN pushed ELSE stored

\* a variant of EffectiveKey that prefers the key of updatedRecord to the
\* key of oldRecord
EffectiveKeyUpdatedFirst(entityKey, oldRecord, updatedRecord) ==
  Or(Or(normalizeEntityKey(entityKey),
        normalizeEntityKey(KeyOf(updatedRecord))),
     normalizeEntityKey(KeyOf(oldRecord)))

\* normalizeEntityKey(entityKey) || normalizeEntityKey(oldRecord?.entityKey)
\*   || normalizeEntityKey(updatedRecord?.entityKey)
EffectiveKey(entityKey, oldRecord, updatedRecord) ==
  Or(Or(normalizeEntityKey(entityKey),
        normalizeEntityKey(KeyOf(oldRecord))),
     normalizeEntityKey(KeyOf(updatedRecord)))

\* a variant of Renew that also stores the new record in the current store
RenewIntoStore(body, tNow, io) ==
  LET oldRecord == ensureEntityKey(body.oldRecord, tNow)
      updatedRecord == ensureEntityKey(body.updatedRecord, tNow)
      entityKey == EffectiveKey(body.entityKey, oldRecord, updatedRecord)
  IN /\ req' = [op |-> "renew", body |-> body]
     /\ UNCHANGED archive
     /\ IF MissingPayload(entityKey, oldRecord, updatedRecord)
          THEN /\ res' = Response(400, FALSE,
                                  "Missing payload (entityKey/oldRecord/updatedRecord)", <<>>)
               /\ UNCHANGED <<history, records>>
          ELSE LET now == toISOString(tNow)
                   newRecord == buildRenewedRecord(entityKey, updatedRecord, tNow)
                   pushed == PushRenewal(history, entityKey, body.source, now,
                                         oldRecord, newRecord)
               IN /\ Len(history) + 2 <= MaxHistory
                  /\ ItemCount < MaxItems
                  /\ history' = PersistHistory(history, pushed, io)
                  /\ IF io = "ok"
                       THEN /\ res' = Response(200, TRUE, "", <<newRecord>>)
                            /\ records' = Append(records, newRecord)
                       ELSE /\ res' = Response(500, FALSE, "Renew failed", <<>>)
                            /\ UNCHANGED records

Renew(body, tNow, io) ==
  LET oldRecord == ensureEntityKey(body.oldRecord, tNow)
      updatedRecord == ensureEntityKey(body.updatedRecord, tNow)
      entityKey == EffectiveKey(body.entityKey, oldRecord, updatedRecord)
  IN /\ req' = [op |-> "renew", body |-> body]
     /\ UNCHANGED <<records, archive>>
     /\ IF MissingPayload(entityKey, oldRecord, updatedRecord)
          THEN /\ res' = Response(400, FALSE,
                                  "Missing payload (entityKey/oldRecord/updatedRecord)", <<>>)
               /\ UNCHANGED history
          ELSE LET now == toISOString(tNow)
                   newRecord == buildRenewedRecord(entityKey, updatedRecord, tNow)
                   pushed == PushRenewal(history, entityKey, body.source, now,
                                         oldRecord, newRecord)
               IN /\ Len(history) + 2 <= MaxHistory
                  /\ ItemCount < MaxItems
                  /\ history' = PersistHistory(history, pushed, io)
                  /\ IF io = "ok"
                       THEN res' = Response(200, TRUE, "", <<newRecord>>)
                       ELSE res' = Response(500, FALSE, "Renew failed", <<>>)

\* ------------------------------------------------------------------------
\* GET /records/renewed/:entityKey
\* ------------------------------------------------------------------------
\* param is req.params.entityKey: the path segment as Express hands it to
\* the handler, that is already percent-decoded once by the router.
GetRenewedResponse(param, hist, now) ==
  LET decoded == decodeURIComponent(Or(param, <<>>))
      ek == normalizeEntityKey(decoded)
  IN IF decoded = URIError
       THEN Response(500, FALSE, "Failed to load renewed record", <<>>)
       ELSE IF ~Truthy(ek)
         THEN Response(200, TRUE, "", <<Null>>)
         ELSE Response(200, TRUE, "", <<getLatestRenewedByEntityKey(ek, hist, now)>>)

GetRenewed(param, now) ==
  /\ req' = [op |-> "getRenewed", entityKey |-> param]
  /\ res' = GetRenewedResponse(param, history, now)
  /\ UNCHANGED <<records, archive, history>>

\* ------------------------------------------------------------------------
\* GET /records/export?month=
\* ------------------------------------------------------------------------
\* latest || r for one archived record
Replaced(r, hist, now) ==
  LET ek == normalizeEntityKey(r.entityKey)
      latest == IF Truthy(ek) THEN getLatestRenewedByEntityKey(ek, hist, now) ELSE Null
  IN IF latest # Null THEN latest ELSE r

ExportList(month, now) ==
  LET list == MapEnsure(Bucket(archive, month), now)
  IN [i \in 1..Len(list) |-> Replaced(list[i], history, now)]

Export(queryMonth, now) ==
  LET month == normalize(queryMonth)
  IN /\ req' = [op |-> "export", month |-> queryMonth]
     /\ UNCHANGED <<records, archive, history>>
     /\ IF ~Truthy(month)
          THEN res' = Response(400, FALSE, "Missing month", <<>>)
          ELSE res' = Response(200, TRUE, "", ExportList(month, now))

\* ------------------------------------------------------------------------
\* GET /records/renewed
\* ------------------------------------------------------------------------
\* a variant of IsRenewedAction that lets every event through
IsRenewedActionAny(h) == TRUE

\* String(h.action || "").toUpperCase() === "RENEWED"
IsRenewedAction(h) == toUpperCase(h.action) = "RENEWED"

\* the entry of the listing for one event of the log
RenewedEntry(h, now) ==
  LET rec == ensureEntityKey(OrEmpty(h.data), now)
  IN [rec EXCEPT !.entityKey = Or(h.entityKey, rec.entityKey),
                 !.renewedAt = Or(Or(h.changedAt, rec.renewedAt), <<>>)]
       @@ [source |-> Or(h.source, <<"Renewed">>)]

RECURSIVE InsertByRenewedAtDesc(_, _)
\* insert e before the first element with a smaller renewedAt
InsertByRenewedAtDesc(sorted, e) ==
  IF sorted = <<>> THEN <<e>>
  ELSE IF localeCompare(Or(e.renewedAt, <<>>), Or(Head(sorted).renewedAt, <<>>)) > 0
    THEN <<e>> \o sorted
    ELSE <<Head(sorted)>> \o InsertByRenewedAtDesc(Tail(sorted), e)

RECURSIVE SortByRenewedAtDesc(_)
\* Array.prototype.sort (stable) descending by renewedAt
SortByRenewedAtDesc(list) ==
  IF list = <<>> THEN <<>>
  ELSE InsertByRenewedAtDesc(SortByRenewedAtDesc(SubSeq(list, 1, Len(list) - 1)),
                             list[Len(list)])

RenewedRecords(hist, now) ==
  LET renewed == SelectSeq(hist, IsRenewedAction)
  IN SortByRenewedAtDesc([i \in 1..Len(renewed) |-> RenewedEntry(renewed[i], now)])

GetRenewedList(now) ==
  /\ req' = [op |-> "listRenewed"]
  /\ res' = Response(200, TRUE, "", RenewedRecords(history, now))
  /\ UNCHANGED <<records, archive, history>>

\* ------------------------------------------------------------------------
\* GET /manager/items?scope=&month=
\* ------------------------------------------------------------------------
\* the documents store: the /documents routes are not part of the model, so
\* the file keeps the content ensureFile gave it
documents == <<>>

\* pushItem
Item(kind, id, source, createdAt, changedAt, entityKey, data, month) ==
  [kind |-> kind, id |-> id, source |-> source,
   createdAt |-> Or(createdAt, <<>>), changedAt |-> Or(changedAt, <<>>),
   entityKey |-> Or(entityKey, <<>>), month |-> Or(month, <<>>), data |-> data]

CurrentItems(now) ==
  LET list == MapEnsure(records, now)
  IN [i \in 1..Len(list) |->
        Item("current", list[i].id, <<"Current">>, list[i].createdAt, Undef,
             list[i].entityKey, list[i], Undef)]

ArchiveItemsOf(m, now) ==
  LET list == MapEnsure(Bucket(archive, m), now)
  IN [i \in 1..Len(list) |->
        Item("archive", list[i].id, <<"Archive:">> \o m, list[i].createdAt, Undef,
             list[i].entityKey, list[i], m)]

RECURSIVE ArchiveItems(_, _)
\* months.forEach over the months in key order
ArchiveItems(months, now) ==
  IF months = <<>> THEN <<>>
  ELSE ArchiveItemsOf(Head(months), now) \o ArchiveItems(Tail(months), now)

RECURSIVE KeysInOrder(_)
\* Object.keys(archive): the month keys, listed in the order of the months
KeysInOrder(S) ==
  IF S = {} THEN <<>>
  ELSE LET m == CHOOSE x \in S : \A y \in S : localeCompare(Tail(x), Tail(y)) <= 0
       IN <<m>> \o KeysInOrder(S \ {m})

RenewedItems(hist, now) ==
  LET renewed == SelectSeq(hist, IsRenewedAction)
  IN [i \in 1..Len(renewed) |->
        LET rec == ensureEntityKey(OrEmpty(renewed[i].data), now)
        IN Item("renewed", rec.id, <<"Renewed">>, Undef, renewed[i].changedAt,
                Or(renewed[i].entityKey, rec.entityKey), rec, Undef)]

RECURSIVE InsertItemDesc(_, _)
\* insert e before the first element with a smaller changedAt || createdAt
InsertItemDesc(sorted, e) ==
  IF sorted = <<>> THEN <<e>>
  ELSE IF localeCompare(Or(e.changedAt, e.createdAt),
                        Or(Head(sorted).changedAt, Head(sorted).createdAt)) > 0
    THEN <<e>> \o sorted
    ELSE <<Head(sorted)>> \o InsertItemDesc(Tail(sorted), e)

RECURSIVE SortItemsDesc(_)
SortItemsDesc(list) ==
  IF list = <<>> THEN <<>>
  ELSE InsertItemDesc(SortItemsDesc(SubSeq(list, 1, Len(list) - 1)), list[Len(list)])

ManagerScopes == {Undef, <<"current">>, <<"archive">>, <<"renewed">>, <<SP, "renewed">>}

ManagerItemsList(queryScope, queryMonth, now) ==
  LET scope == normalize(Or(queryScope, <<"all">>))
      month == normalize(Or(queryMonth, <<>>))
      all == scope = <<"all">>
      months == IF Truthy(month) THEN <<month>> ELSE KeysInOrder(DOMAIN archive)
  IN SortItemsDesc(
       (IF all \/ scope = <<"current">> THEN CurrentItems(now) ELSE <<>>)
       \o (IF all \/ scope = <<"archive">> THEN ArchiveItems(months, now) ELSE <<>>)
       \o (IF all \/ scope = <<"documents">> THEN documents ELSE <<>>)
       \o (IF all \/ scope = <<"renewed">> THEN RenewedItems(history, now) ELSE <<>>))

ManagerItems(queryScope, queryMonth, now) ==
  /\ req' = [op |-> "managerItems", scope |-> queryScope, month |-> queryMonth]
  /\ res' = Response(200, TRUE, "", ManagerItemsList(queryScope, queryMonth, now))
  /\ UNCHANGED <<records, archive, history>>

\* ------------------------------------------------------------------------
\* PUT /records/:id
\* ------------------------------------------------------------------------
NaN == -1

RECURSIVE DigitsValue(_)
DigitsValue(str) ==
  IF str = <<>> THEN 0
  ELSE 10 * DigitsValue(SubSeq(str, 1, Len(str) - 1)) + DigitVal(str[Len(str)])

\* Number(v) of a string, a JSON number or undefined
Number(v) ==
  LET t == Trim(v)
  IN IF v = Undef THEN NaN
     ELSE IF \A i \in 1..Len(t) : \E d \in 1..10 : Digits[d] = t[i] THEN DigitsValue(t)
     ELSE NaN

\* a === b on numbers: NaN equals nothing
NumberEq(a, b) == a # NaN /\ b # NaN /\ a = b

\* the first position whose element is in the set hits: 0 stands for the
\* -1 of findIndex and the undefined of find
FirstIndex(list, hits) ==
  IF \E i \in 1..Len(list) : list[i] \in hits
    THEN CHOOSE i \in 1..Len(list) :
           list[i] \in hits /\ \A j \in 1..(i - 1) : list[j] \notin hits
    ELSE 0

\* records.findIndex((r) => Number(r.id) === id)
FindIndexByNumber(list, id) ==
  FirstIndex(list, {list[i] : i \in {j \in 1..Len(list) : NumberEq(Number(list[j].id), id)}})

\* list.find((r) => String(r.id) == String(id))
FindIndexById(list, id) ==
  FirstIndex(list, {list[i] : i \in {j \in 1..Len(list) : list[j].id = id}})

\* a variant of UpdatedRecord that stores the update as a new record with
\* the id Date.now()
UpdatedRecordFreshId(r, body, now) ==
  LET allowed == pickAllowedRecordFields(body)
  IN ensureEntityKey(
       [r EXCEPT !.id = NumStr(now + 2),
                 !.fsicAppNo = allowed.fsicAppNo,
                 !.ownerName = allowed.ownerName,
                 !.teamLeader = Coalesce(Coalesce(body.teamLeader, r.teamLeader), <<>>),
                 !.createdAt = toISOString(now)],
       now)

\* a variant of UpdatedRecord that derives the key again from the updated
\* fields
UpdatedRecordRekey(r, body, now) ==
  LET allowed == pickAllowedRecordFields(body)
  IN ensureEntityKeyRecompute(
       [r EXCEPT !.fsicAppNo = allowed.fsicAppNo,
                 !.ownerName = allowed.ownerName,
                 !.teamLeader = Coalesce(Coalesce(body.teamLeader, r.teamLeader), <<>>),
                 !.updatedAt = toISOString(now)],
       now)

\* ensureEntityKey({...records[idx], ...allowed, teamLeader, updatedAt})
UpdatedRecord(r, body, now) ==
  LET allowed == pickAllowedRecordFields(body)
  IN ensureEntityKey(
       [r EXCEPT !.fsicAppNo = allowed.fsicAppNo,
                 !.ownerName = allowed.ownerName,
                 !.teamLeader = Coalesce(Coalesce(body.teamLeader, r.teamLeader), <<>>),
                 !.updatedAt = toISOString(now)],
       now)

PutRecord(paramId, body, now, io) ==
  LET id == Number(paramId)
      list == MapEnsure(records, now)
      idx == FindIndexByNumber(list, id)
  IN /\ req' = [op |-> "put", id |-> paramId, body |-> body]
     /\ UNCHANGED <<archive, history>>
     /\ IF idx = 0
          THEN /\ res' = Response(404, FALSE, "Record not found", <<>>)
               /\ UNCHANGED records
          ELSE LET updated == UpdatedRecord(list[idx], body, now)
               IN IF io = "ok"
                    THEN /\ records' = [list EXCEPT ![idx] = updated]
                         /\ res' = Response(200, TRUE, "", <<updated>>)
                    ELSE /\ res' = Response(500, FALSE, "Update record failed", <<>>)
                         /\ UNCHANGED records

\* ------------------------------------------------------------------------
\* DELETE /records/:id and DELETE /archive/:month/:id
\* ------------------------------------------------------------------------
\* list.filter((r) => String(r.id) !== id)
WithoutId(list, id) == SelectSeq(list, LAMBDA r : r.id # id)

DeleteRecord(paramId, io) ==
  LET after == WithoutId(records, paramId)
  IN /\ req' = [op |-> "delete", id |-> paramId]
     /\ UNCHANGED <<archive, history>>
     /\ IF io = "ok"
          THEN /\ records' = after
               /\ res' = [Response(200, TRUE, "", <<>>) EXCEPT
                            !.archivedCount = Len(records) - Len(after)]
          ELSE /\ res' = Response(500, FALSE, "Delete failed", <<>>)
               /\ UNCHANGED records

DeleteArchived(paramMonth, paramId, io) ==
  LET list == Bucket(archive, paramMonth)
      after == WithoutId(list, paramId)
  IN /\ req' = [op |-> "deleteArchived", month |-> paramMonth, id |-> paramId]
     /\ UNCHANGED <<records, history>>
     /\ IF io = "ok"
          THEN /\ archive' = SetBucket(archive, paramMonth, after)
               /\ res' = [Response(200, TRUE, "", <<>>) EXCEPT
                            !.archivedCount = Len(list) - Len(after)]
          ELSE /\ res' = Response(500, FALSE, "Delete failed", <<>>)
               /\ UNCHANGED archive

\* ------------------------------------------------------------------------
\* GET /records/:id/certificate/:type/pdf and GET /records/:id/:docType/pdf
\* ------------------------------------------------------------------------
RECURSIVE FindInArchive(_, _, _)
\* the loop over Object.keys(archive) of findRecordById
FindInArchive(months, id, now) ==
  IF months = <<>> THEN Null
  ELSE LET idx == FindIndexById(archive[Head(months)], id)
       IN IF idx # 0 THEN ensureEntityKey(archive[Head(months)][idx], now)
          ELSE FindInArchive(Tail(months), id, now)

findRecordById(id, now) ==
  LET idx == FindIndexById(records, id)
  IN IF idx # 0 THEN ensureEntityKey(records[idx], now)
     ELSE FindInArchive(KeysInOrder(DOMAIN archive), id, now)

\* the record handed to generatePDF is the record of the response
CertificatePdf(paramId, now) ==
  LET record == findRecordById(paramId, now)
  IN /\ req' = [op |-> "certificatePdf", id |-> paramId]
     /\ UNCHANGED <<records, archive, history>>
     /\ IF record = Null
          THEN res' = Response(404, FALSE, "Record not found", <<>>)
          ELSE res' = Response(200, TRUE, "", <<record>>)

DocTypes == {"io", "reinspection", "nfsi"}

RecordPdf(paramId, docType, now) ==
  LET record == findRecordById(paramId, now)
  IN /\ req' = [op |-> "recordPdf", id |-> paramId, docType |-> docType]
     /\ UNCHANGED <<records, archive, history>>
     /\ IF record = Null
          THEN res' = Response(404, FALSE, "Record not found", <<>>)
          ELSE IF docType \notin DocTypes
            THEN res' = Response(400, FALSE, "Invalid type", <<>>)
            ELSE res' = Response(200, TRUE, "", <<record>>)

\* ------------------------------------------------------------------------
\* POST /import/records
\* ------------------------------------------------------------------------
\* crypto.randomUUID(): 36 characters with dashes, never a decimal number
Uuids == {<<"a", "-", "1">>, <<"2", "-", "b">>}

\* String.prototype.toUpperCase on the tokens of the cells
UpperToken(c) ==
  IF c = "g" THEN "G"
  ELSE IF c = "Ann" THEN "ANN"
  ELSE IF c = "Bob" THEN "BOB"
  ELSE c

toUpperCaseStr(str) == [i \in 1..Len(str) |-> UpperToken(str[i])]

\* a row of the sheet: the cells under the fsic number and owner headers,
\* "" for an empty cell (defval)
Row(fsicAppNo, ownerName) == [fsicAppNo |-> fsicAppNo, ownerName |-> ownerName]

mapExcelRowToRecord(row, id, now) ==
  ensureEntityKey(
    [Blank EXCEPT !.id = id,
                  !.createdAt = toISOString(now),
                  !.fsicAppNo = Trim(toUpperCaseStr(Or(row.fsicAppNo, <<>>))),
                  !.ownerName = Trim(toUpperCaseStr(Or(row.ownerName, <<>>)))],
    now)

\* mapped.filter((r) => normalize(r.fsicAppNo) && normalize(r.ownerName))
Importable(r) == Truthy(normalize(r.fsicAppNo)) /\ Truthy(normalize(r.ownerName))

\* the response carries the imported records; archivedCount holds the
\* field "imported" of the JSON answer
ImportRecords(rows, ids, now, io) ==
  LET current == MapEnsure(records, now)
      mapped == [i \in 1..Len(rows) |-> mapExcelRowToRecord(rows[i], ids[i], now)]
      toAdd == SelectSeq(mapped, Importable)
  IN /\ Len(ids) = Len(rows)
     /\ \A i, j \in 1..Len(ids) : i # j => ids[i] # ids[j]
     /\ \A i \in 1..Len(ids) : \A j \in 1..Len(records) : records[j].id # ids[i]
     /\ StoredCount + Len(toAdd) <= MaxRecords
     /\ ItemCount + Len(toAdd) <= MaxItems
     /\ req' = [op |-> "import", rows |-> rows]
     /\ UNCHANGED <<archive, history>>
     /\ IF rows = <<>>
          THEN /\ res' = Response(400, FALSE, "Excel sheet is empty.", <<>>)
               /\ UNCHANGED records
          ELSE IF io = "ok"
            THEN /\ records' = current \o toAdd
                 /\ res' = [Response(200, TRUE, "", toAdd) EXCEPT
                              !.archivedCount = Len(toAdd)]
            ELSE /\ res' = Response(500, FALSE, "Failed to import records Excel.", <<>>)
                 /\ UNCHANGED records

\* ------------------------------------------------------------------------
\* Specification
\* ------------------------------------------------------------------------
\* the instants a handler can read where Date.now() is evaluated only when
\* cond holds
TimesIf(cond) == IF cond THEN Times ELSE {1}

AnyNeedsNow(list) == \E i \in 1..Len(list) : NeedsNow(list[i])

HistoryData == [i \in 1..Len(history) |-> history[i].data]

Next ==
  \/ \E body \in PostBodies, now \in Times, io \in IOs : PostRecord(body, now, io)
  \/ \E now \in Times, ioArchive \in IOs, ioData \in IOs : CloseMonth(now, ioArchive, ioData)
  \/ \E body \in RenewBodies, tNow \in Times, io \in IOs : Renew(body, tNow, io)
  \/ \E param \in LookupKeys, now \in TimesIf(AnyNeedsNow(HistoryData)) : GetRenewed(param, now)
  \/ \E queryMonth \in ExportMonths,
        now \in TimesIf(AnyNeedsNow(HistoryData) \/ \E m \in DOMAIN archive : AnyNeedsNow(archive[m])) :
       Export(queryMonth, now)

Spec == Init /\ [][Next]_vars

\* ------------------------------------------------------------------------
\* The record routes: intake, update, removal, renewal and rendering
\* ------------------------------------------------------------------------
AdminPostBodies ==
  { [Blank EXCEPT !.fsicAppNo = sGpad, !.ownerName = Ann, !.junk = <<"x">>] }

AdminRenewBodies == { RenewBody(Undef, Undef, old1, upd1) }

PutBodies ==
  { [Blank EXCEPT !.fsicAppNo = <<"H">>, !.ownerName = Bob, !.teamLeader = <<"Lee">>,
                   !.entityKey = keyRec7] }

\* the instants the record routes read: the first and the last of the clock
AdminTimes == {1, MaxTime}

\* ids of the path: the ids the model's clock gives
ParamIds == {NumStr(t) : t \in AdminTimes}

NextAdmin ==
  \/ \E body \in AdminPostBodies, now \in AdminTimes, io \in IOs : PostRecord(body, now, io)
  \/ \E now \in AdminTimes, ioArchive \in IOs, ioData \in IOs :
       CloseMonth(now, ioArchive, ioData)
  \/ \E body \in AdminRenewBodies, tNow \in AdminTimes, io \in IOs : Renew(body, tNow, io)
  \/ \E paramId \in ParamIds, body \in PutBodies, now \in AdminTimes, io \in IOs :
       PutRecord(paramId, body, now, io)
  \/ \E paramId \in ParamIds, io \in IOs : DeleteRecord(paramId, io)
  \/ \E paramMonth \in {MonthKey(t) : t \in AdminTimes}, paramId \in ParamIds, io \in IOs :
       DeleteArchived(paramMonth, paramId, io)
  \/ \E paramId \in ParamIds : CertificatePdf(paramId, 1)
  \/ \E paramId \in ParamIds, docType \in {"io", "x"} : RecordPdf(paramId, docType, 1)

SpecAdmin == Init /\ [][NextAdmin]_vars

\* ------------------------------------------------------------------------
\* Ids of the current store: update and removal by id
\* ------------------------------------------------------------------------
ImportRows ==
  { <<>>,
    <<Row(<<"g", SP>>, <<"Ann">>)>>,
    <<Row(<<"g">>, <<"Bob">>), Row(<<"h">>, <<>>)>>,
    <<Row(<<"g">>, <<"Ann">>), Row(<<"h">>, <<"Bob">>)>> }

ImportIds == {<<>>} \cup {<<u>> : u \in Uuids} \cup {<<u, v>> : u \in Uuids, v \in Uuids}

\* ids of the path: timestamps, a timestamp written with a leading zero and
\* the ids of imported records
IdParams == ParamIds \cup {<<"0", "1">>} \cup Uuids

NextIds ==
  \/ \E rows \in ImportRows, ids \in ImportIds, io \in IOs : ImportRecords(rows, ids, 1, io)
  \/ \E body \in AdminPostBodies, now \in AdminTimes : PostRecord(body, now, "ok")
  \/ \E paramId \in IdParams, body \in PutBodies, io \in IOs : PutRecord(paramId, body, 1, io)
  \/ \E paramId \in IdParams, io \in IOs : DeleteRecord(paramId, io)

SpecIds == Init /\ [][NextIds]_vars

\* ------------------------------------------------------------------------
\* Renewals under a clock that never goes backwards
\* ------------------------------------------------------------------------
\* the instant of the last renewal of the log: a later request reads this
\* instant or a later one
LastInstant == IF history = <<>> THEN 1 ELSE IsoTime(history[Len(history)].changedAt)

ClockKeys == {keyG, keyGpad, keyPct, keyRec7}

NextClock ==
  \/ \E body \in RenewBodies, tNow \in Times, io \in IOs :
       tNow >= LastInstant /\ Renew(body, tNow, io)
  \/ \E param \in ClockKeys : GetRenewed(param, MaxTime)

SpecClock == Init /\ [][NextClock]_vars

\* ------------------------------------------------------------------------
\* Month closes over several months
\* ------------------------------------------------------------------------
\* an instant of the first month and an instant of a later month
MonthTimes == {1, 2 * MaxTime - 1}

NextMonths ==
  \/ \E body \in PostBodies, now \in MonthTimes, io \in IOs : PostRecord(body, now, io)
  \/ \E now \in MonthTimes, ioArchive \in IOs, ioData \in IOs :
       CloseMonth(now, ioArchive, ioData)

SpecMonths == Init /\ [][NextMonths]_vars

\* ------------------------------------------------------------------------
\* Export of archived records whose key was sent by the client
\* ------------------------------------------------------------------------
\* POST /records stores req.body.entityKey as it is sent
ExportPostBodies ==
  { [Blank EXCEPT !.entityKey = keyGpad, !.ownerName = Ann],
    [Blank EXCEPT !.fsicAppNo = sPct, !.ownerName = Bob] }

NextExport ==
  \/ \E body \in ExportPostBodies, now \in Times : PostRecord(body, now, "ok")
  \/ \E now \in Times, ioArchive \in IOs, ioData \in IOs : CloseMonth(now, ioArchive, ioData)
  \/ \E body \in RenewBodies, tNow \in Times, io \in IOs : Renew(body, tNow, io)
  \/ \E queryMonth \in ExportMonths : Export(queryMonth, 1)

SpecExport == Init /\ [][NextExport]_vars

\* ------------------------------------------------------------------------
\* The reconciler over any content of the history file
\* ------------------------------------------------------------------------
\* getLatestRenewedByEntityKey and the listings read whatever history.json
\* holds; SpecLog draws that content from the logs of at most MaxLog events
\* of LogEvents and applies the read-only routes to it.
MaxLog == 3

LogEvents ==
  { HistoryEvent(keyG, <<"Manual">>, toISOString(1), "PREVIOUS", old1),
    HistoryEvent(keyG, <<"Renewed">>, toISOString(1), "RENEWED",
                 buildRenewedRecord(keyG, upd1, 1)),
    HistoryEvent(keyG, <<"Renewed">>, toISOString(2), "RENEWED",
                 buildRenewedRecord(keyG, upd7, 2)),
    HistoryEvent(keyPct, <<"Unknown">>, toISOString(2), "PREVIOUS", oldPct),
    HistoryEvent(keyRec7, Undef, toISOString(1), "renewed",
                 buildRenewedRecord(keyRec7, upd1, 1)),
    HistoryEvent(keyGpad, <<"Renewed">>, toISOString(2), "RENEWED",
                 buildRenewedRecord(keyG, upd1, 2)) }

Logs == UNION {[1..n -> LogEvents] : n \in 0..MaxLog}

LogLookupKeys == LookupKeys \cup {keyRec7, <<SP, SP>>}

\* the stores next to the log: one current and one archived record, as
\* POST /records and close-month leave them
LogCurrent ==
  << ensureEntityKey([Blank EXCEPT !.id = NumStr(2), !.createdAt = toISOString(2),
                                   !.fsicAppNo = sGpad, !.ownerName = Ann], 2) >>

LogArchive ==
  SetBucket(<<>>, MonthKey(1),
            << ensureEntityKey([Blank EXCEPT !.id = NumStr(1), !.createdAt = toISOString(1),
                                             !.fsicAppNo = sPct, !.ownerName = Bob], 1) >>)

InitLog ==
  /\ records = LogCurrent
  /\ archive = LogArchive
  /\ history \in Logs
  /\ req = [op |-> "start"]
  /\ res = Response(0, FALSE, "", <<>>)

NextLog ==
  \/ \E param \in LogLookupKeys, now \in TimesIf(AnyNeedsNow(HistoryData)) :
       GetRenewed(param, now)
  \/ \E now \in TimesIf(AnyNeedsNow(HistoryData)) : GetRenewedList(now)
  \/ \E queryScope \in ManagerScopes, queryMonth \in {Undef, MonthKey(1)},
        now \in TimesIf(AnyNeedsNow(HistoryData)) :
       ManagerItems(queryScope, queryMonth, now)

SpecLog == InitLog /\ [][NextLog]_vars

\* ------------------------------------------------------------------------
\* ensureEntityKey over any record
\* ------------------------------------------------------------------------
\* ensureEntityKey is applied to records that clients send (the oldRecord
\* and updatedRecord of a renew) and to every record read from a file.
\* SpecKeys draws the record from KeyRecords and applies the function at the
\* instant t1, to its own result at t2, and to the record again at t2.
KeyRecords ==
  { [Blank EXCEPT !.entityKey = k, !.fsicAppNo = f, !.FSIC_APP_NO = a,
                  !.FSIC_NUMBER = n, !.id = i] :
      k \in {Undef, <<>>, <<SP>>, keyG},
      f \in {Undef, <<>>, <<SP>>, sGpad},
      a \in {Undef, <<"L">>},
      n \in {Undef, <<"N", SP>>},
      i \in {Undef, <<>>, <<"7">>} }

InitKeys ==
  /\ records = <<>>
  /\ archive = <<>>
  /\ history = <<>>
  /\ req \in {[op |-> "record", record |-> r] : r \in KeyRecords}
  /\ res = Response(0, FALSE, "", <<>>)

ApplyEnsureEntityKey(t1, t2) ==
  LET r == req.record
      first == ensureEntityKey(r, t1)
  IN /\ req' = [op |-> "ensureEntityKey", record |-> r, now |-> t1, again |-> t2]
     /\ res' = Response(200, TRUE, "",
                        <<first, ensureEntityKey(first, t2), ensureEntityKey(r, t2)>>)
     /\ UNCHANGED <<records, archive, history>>

NextKeys == \E t1 \in Times, t2 \in Times : ApplyEnsureEntityKey(t1, t2)

SpecKeys == InitKeys /\ [][NextKeys]_vars

\* ------------------------------------------------------------------------
\* Properties
\* ------------------------------------------------------------------------
\* every key a client or a stored record can carry
AllKeys ==
  LookupKeys \cup {keyG, keyRec7, <<>>, Undef}
    \cup {history[i].entityKey : i \in 1..Len(history)}
    \cup {records[i].entityKey : i \in 1..Len(records)}

\* positions of the RENEWED events of key k in the log
RenewedOf(k) ==
  {i \in 1..Len(history) :
     history[i].action = "RENEWED" /\ Trim(history[i].entityKey) = Trim(Coalesce(k, <<>>))}

RenewStep == req'.op = "renew"
CloseMonthStep == req'.op = "closeMonth"

\* C1: every successful renew appends exactly two events to the end of the
\* history log, a PREVIOUS event and then a RENEWED event with the same
\* changedAt, and the log before the renew is a prefix of the log after it.
C1_RenewAppendsPair ==
  [][ (RenewStep /\ res'.success) =>
        LET n == Len(history)
        IN /\ Len(history') = n + 2
           /\ SubSeq(history', 1, n) = history
           /\ history'[n + 1].action = "PREVIOUS"
           /\ history'[n + 2].action = "RENEWED"
           /\ history'[n + 1].changedAt = history'[n + 2].changedAt ]_vars

\* a successful renew has acted on a log that already held events
C1_Witness == req.op = "renew" /\ res.success /\ Len(history) = 4

\* C2: in every reachable state every RENEWED event's data.entityKey equals
\* the event's own entityKey.
C2_RenewedDataKey ==
  \A i \in 1..Len(history) :
    history[i].action = "RENEWED" => history[i].data.entityKey = history[i].entityKey

\* a renew with an explicit key whose updatedRecord carries another key and
\* an fsicAppNo deriving a third one has been logged
C2_Witness ==
  \E i \in 1..Len(history) :
    /\ history[i].action = "RENEWED"
    /\ history[i].entityKey = keyG
    /\ history[i].data.fsicAppNo = <<"H">>
    /\ req.op = "renew" /\ req.body.entityKey = keyGpad
    /\ req.body.updatedRecord.entityKey = keyRec7

\* C3: for every key k, latestRenewed(k) is the data of a RENEWED event of k
\* whose changedAt is the greatest among the RENEWED events of k, whatever
\* the insertion order; the rest of the log does not influence the result.
C3_LatestIsGreatest ==
  \A k \in AllKeys :
    LET latest == getLatestRenewedByEntityKey(k, history, 1)
        own == SelectSeq(history, LAMBDA h : h.action = "RENEWED"
                                              /\ Trim(h.entityKey) = Trim(Coalesce(k, <<>>)))
    IN /\ RenewedOf(k) # {} =>
            \E i \in RenewedOf(k) :
               /\ latest = history[i].data
               /\ \A j \in RenewedOf(k) :
                     IsoTime(history[j].changedAt) <= IsoTime(history[i].changedAt)
       /\ latest = getLatestRenewedByEntityKey(k, own, 1)

\* two RENEWED events of one key were appended against the order of their
\* changedAt, next to PREVIOUS events of that key
C3_Witness ==
  \E i, j \in 1..Len(history) :
    /\ i < j
    /\ history[i].action = "RENEWED" /\ history[j].action = "RENEWED"
    /\ history[i].entityKey = history[j].entityKey
    /\ IsoTime(history[i].changedAt) > IsoTime(history[j].changedAt)

\* C4: when several RENEWED events of one key carry the same greatest
\* changedAt, latestRenewed returns the data of the one appended last.
C4_TieLastAppendedWins ==
  \A k \in AllKeys :
    RenewedOf(k) # {} =>
      LET top == {i \in RenewedOf(k) :
                    \A j \in RenewedOf(k) :
                      IsoTime(history[j].changedAt) <= IsoTime(history[i].changedAt)}
          last == CHOOSE i \in top : \A j \in top : j <= i
      IN getLatestRenewedByEntityKey(k, history, 1) = history[last].data

\* two RENEWED events of one key with the same changedAt and different data
C4_Witness ==
  \E i, j \in 1..Len(history) :
    /\ i < j
    /\ history[i].action = "RENEWED" /\ history[j].action = "RENEWED"
    /\ history[i].entityKey = history[j].entityKey
    /\ history[i].changedAt = history[j].changedAt
    /\ history[i].data # history[j].data

\* the payload of a renew lacks a record or every candidate key is empty
\* after normalization
BadRenewPayload(body) ==
  \/ body.oldRecord = Null
  \/ body.updatedRecord = Null
  \/ \A t \in Times :
       \A key \in {body.entityKey, ensureEntityKey(body.oldRecord, t).entityKey,
                   ensureEntityKey(body.updatedRecord, t).entityKey} :
         Trim(Coalesce(key, <<>>)) = <<>>

\* C5: a renew whose effective entity key is empty after normalization, or
\* whose oldRecord or updatedRecord is absent, fails with status 400 and
\* leaves the history log, the current store and the archive as they were.
C5_BadRenewRejected ==
  [][ (RenewStep /\ BadRenewPayload(req'.body)) =>
        /\ res'.status = 400
        /\ ~res'.success
        /\ UNCHANGED <<history, records, archive>> ]_vars

\* a renew with both records present but only blank keys was rejected while
\* the log held events
C5_Witness ==
  /\ req.op = "renew" /\ res.status = 400
  /\ req.body.oldRecord # Null /\ req.body.updatedRecord # Null
  /\ Len(history) > 0

\* C6: the persisted log never holds a PREVIOUS event without the RENEWED
\* event of the same renew directly after it; a renew persists both events
\* and succeeds, or persists nothing and is reported as failed.
C6_PairPersistedOrNone ==
  /\ [](\A i \in 1..Len(history) :
          history[i].action = "PREVIOUS" =>
            /\ i < Len(history)
            /\ history[i + 1].action = "RENEWED"
            /\ history[i + 1].entityKey = history[i].entityKey
            /\ history[i + 1].changedAt = history[i].changedAt)
  /\ [][ RenewStep =>
           \/ res'.success /\ Len(history') = Len(history) + 2
           \/ ~res'.success /\ history' = history ]_vars

\* a renew with a valid payload failed on the storage write
C6_Witness ==
  /\ req.op = "renew" /\ res.status = 500 /\ ~res.success
  /\ Len(history) = 2

\* a record of the current store is also held by an archive bucket
InBoth ==
  \E i \in 1..Len(records) :
    \E m \in DOMAIN archive :
      \E j \in 1..Len(archive[m]) : archive[m][j] = records[i]

\* C7: at every instant no record is present both in the current store and
\* in an archive bucket.
C7_CurrentArchiveDisjoint == ~InBoth

IdsOf(list) == [i \in 1..Len(list) |-> list[i].id]

\* a close-month that directly follows a successful close-month returns the
\* soft failure
SecondCloseIsSoftFailure ==
  (req.op = "closeMonth" /\ res.success /\ CloseMonthStep) =>
    (res'.status = 200 /\ ~res'.success /\ res'.message = "No records")

\* C8 as stated: after a successful close-month the bucket of the month
\* holds exactly the records that were in the current store.
C8_BucketIsExactlyS ==
  [][ /\ (CloseMonthStep /\ res'.success) =>
           /\ records' = <<>>
           /\ IdsOf(archive'[res'.month]) = IdsOf(records)
      /\ SecondCloseIsSoftFailure ]_vars

\* C8 amended: after a successful close-month on the record list S the
\* current store is empty and the bucket of the month holds the records it
\* held before followed by the records of S; a close-month directly after
\* it returns the soft failure.
C8_BucketGainsS ==
  [][ /\ (CloseMonthStep /\ res'.success) =>
           /\ records # <<>>
           /\ records' = <<>>
           /\ res'.archivedCount = Len(records)
           /\ IdsOf(archive'[res'.month]) =
                IdsOf(Bucket(archive, res'.month)) \o IdsOf(records)
      /\ SecondCloseIsSoftFailure ]_vars

\* a successful close-month added records to a bucket that already held some
C8_Witness ==
  /\ req.op = "closeMonth" /\ res.success
  /\ records = <<>>
  /\ Len(archive[res.month]) > res.archivedCount

\* C9: close-month on an empty current store answers
\* {success:false, message:"No records"} with status 200 and leaves the
\* current store and the archive, month keys included, unchanged.
C9_EmptyCloseIsNoOp ==
  [][ (CloseMonthStep /\ records = <<>>) =>
        /\ res' = Response(200, FALSE, "No records", <<>>)
        /\ records' = <<>>
        /\ archive' = archive
        /\ DOMAIN archive' = DOMAIN archive ]_vars

\* close-month answered the soft failure while the archive held a bucket
C9_Witness ==
  /\ req.op = "closeMonth" /\ res.message = "No records"
  /\ records = <<>>
  /\ DOMAIN archive # {}

\* C10: for every archived record r of month M the export holds the latest
\* renewed record of r's key when the key has a RENEWED event and r
\* otherwise, and the entry equals the answer of the per-entity lookup
\* GET /records/renewed/:entityKey for r's key.
C10_ExportMatchesLookup ==
  \A m \in DOMAIN archive :
    \A i \in 1..Len(archive[m]) :
      LET r == archive[m][i]
          entry == ExportList(m, 1)[i]
          lookup == GetRenewedResponse(r.entityKey, history, 1)
      IN IF RenewedOf(r.entityKey) # {}
           THEN /\ entry = getLatestRenewedByEntityKey(r.entityKey, history, 1)
                /\ lookup.status = 200
                /\ lookup.records = <<entry>>
           ELSE /\ entry = r
                /\ lookup.status = 200
                /\ lookup.records = <<Null>>

\* the export half of C10: entries are the latest renewal of the key, or
\* the archived record when its key has no RENEWED event
ExportSubstitutes ==
  \A m \in DOMAIN archive :
    \A i \in 1..Len(archive[m]) :
      LET r == archive[m][i]
          entry == ExportList(m, 1)[i]
      IN IF RenewedOf(r.entityKey) # {}
           THEN \E j \in RenewedOf(r.entityKey) : entry = history[j].data
           ELSE entry = r

\* positions of the events of key k that the server treats as RENEWED
RenewedEventsOf(k) ==
  {i \in 1..Len(history) :
     /\ history[i].action \in {"RENEWED", "renewed"}
     /\ Trim(history[i].entityKey) = Trim(Coalesce(k, <<>>))}

LogKeys == AllKeys \cup LogLookupKeys

\* the function half of C11: getLatestRenewedByEntityKey is null for a
\* blank key and for a key without RENEWED event
LatestRenewedNullOnLog ==
  \A k \in LogKeys :
    (Trim(Coalesce(k, <<>>)) = <<>> \/ RenewedEventsOf(k) = {}) =>
      getLatestRenewedByEntityKey(k, history, 1) = Null

\* C11: latestRenewed(k) is null, not an error, when k is empty after
\* normalization (undefined, empty or whitespace only) and when the log
\* holds no RENEWED event whose normalized entityKey equals k, also when it
\* holds PREVIOUS events of k: the reconciler returns null and the
\* per-entity lookup answers success with a null record.
C11_NoRenewalIsNull ==
  /\ []LatestRenewedNullOnLog
  /\ [][ (/\ req'.op = "getRenewed"
          /\ \/ Trim(req'.entityKey) = <<>>
             \/ RenewedEventsOf(req'.entityKey) = {}) =>
           res' = Response(200, TRUE, "", <<Null>>) ]_vars

\* C12: removing a renewed record by id X removes from the history log all
\* RENEWED events whose data.id equals X and nothing else: every PREVIOUS
\* event and every other RENEWED event stays, unchanged and in order.
C12_DeleteRemovesRenewed ==
  [][ (req'.op = "delete" /\ res'.success) =>
        history' = SelectSeq(history,
                     LAMBDA h : ~(h.action = "RENEWED" /\ h.data.id = req'.id)) ]_vars

\* the frame half of C12: a delete leaves every PREVIOUS event and every
\* RENEWED event of another id in the log, in order
DeleteKeepsOtherEvents ==
  [][ req'.op \in {"delete", "deleteArchived"} =>
        SelectSeq(history', LAMBDA h : ~(h.action = "RENEWED" /\ h.data.id = req'.id))
          = SelectSeq(history, LAMBDA h : ~(h.action = "RENEWED" /\ h.data.id = req'.id)) ]_vars

\* the first of the keys that is not empty after trimming, "" when all are
FirstNonEmptyKey(keys) ==
  LET filled == SelectSeq(keys, LAMBDA k : Trim(Coalesce(k, <<>>)) # <<>>)
  IN IF filled = <<>> THEN <<>> ELSE Trim(filled[1])

\* C13: the effective entity key of a renew is the first value that is
\* non-empty after trimming among the entityKey param, the key of the
\* key-resolved oldRecord and the key of the key-resolved updatedRecord, in
\* this order, and it is the key of both appended events.
C13_EffectiveKeyOrder ==
  [][ (RenewStep /\ res'.success) =>
        LET n == Len(history)
            t == IsoTime(history'[n + 2].changedAt)
            expected == FirstNonEmptyKey(
                          << req'.body.entityKey,
                             KeyOf(ensureEntityKey(req'.body.oldRecord, t)),
                             KeyOf(ensureEntityKey(req'.body.updatedRecord, t)) >>)
        IN /\ history'[n + 1].entityKey = expected
           /\ history'[n + 2].entityKey = expected ]_vars

\* a renew without entityKey param whose oldRecord carries a blank key was
\* logged under the key of its updatedRecord
C13_Witness ==
  /\ req.op = "renew" /\ res.success
  /\ req.body.entityKey = Undef
  /\ req.body.oldRecord = oldSpace
  /\ history[Len(history)].entityKey = keyRec7
  /\ history[Len(history) - 1].entityKey = keyRec7

Applied == req.op = "ensureEntityKey"

\* C14 as stated: a record with a non-empty entityKey is returned unchanged;
\* otherwise the key is "fsic:" and the trimmed fsicAppNo when that is not
\* empty, and otherwise "rec:" and the id, or the timestamp without id
\* (an empty id counts as absent).
C14_KeyDerivation ==
  Applied =>
    LET r == req.record
        out == res.records[1]
    IN IF r.entityKey # Undef /\ r.entityKey # <<>> THEN out = r
       ELSE IF Trim(Coalesce(r.fsicAppNo, <<>>)) # <<>>
         THEN out = [r EXCEPT !.entityKey = <<"fsic:">> \o Trim(r.fsicAppNo)]
         ELSE out = [r EXCEPT !.entityKey =
                       <<"rec:">> \o (IF r.id # Undef /\ r.id # <<>> THEN r.id
                                      ELSE NumStr(req.now))]

\* the fsic number ensureEntityKey reads: the first of fsicAppNo,
\* FSIC_APP_NO and FSIC_NUMBER that is a non-empty string, trimmed
FsicOf(r) ==
  LET given == SelectSeq(<<r.fsicAppNo, r.FSIC_APP_NO, r.FSIC_NUMBER>>,
                         LAMBDA v : v # Undef /\ v # <<>>)
  IN IF given = <<>> THEN <<>> ELSE Trim(given[1])

\* C14 amended: as C14, with the fsic number taken from the first non-empty
\* of fsicAppNo and its legacy aliases FSIC_APP_NO and FSIC_NUMBER.
C14_KeyDerivationWithAliases ==
  Applied =>
    LET r == req.record
        out == res.records[1]
    IN IF r.entityKey # Undef /\ r.entityKey # <<>> THEN out = r
       ELSE IF FsicOf(r) # <<>>
         THEN out = [r EXCEPT !.entityKey = <<"fsic:">> \o FsicOf(r)]
         ELSE out = [r EXCEPT !.entityKey =
                       <<"rec:">> \o (IF r.id # Undef /\ r.id # <<>> THEN r.id
                                      ELSE NumStr(req.now))]

\* the key of a record with an id, without fsicAppNo and with a legacy fsic
\* number was derived
C14_Witness ==
  /\ Applied
  /\ req.record.entityKey = Undef /\ req.record.fsicAppNo = Undef
  /\ req.record.FSIC_APP_NO = <<"L">> /\ req.record.id = <<"7">>
  /\ res.records[1].entityKey = <<"fsic:", "L">>

\* C15: key resolution is idempotent: resolving the result of a resolution
\* again, at any later or earlier instant, returns that result, also for a
\* record with neither fsic number nor id.
C15_ResolveIdempotent ==
  Applied => res.records[2] = res.records[1]

\* a record with neither key, fsic number nor id was resolved twice at
\* different instants
C15_Witness ==
  /\ Applied
  /\ req.record = Blank
  /\ req.now # req.again
  /\ res.records[2].entityKey = <<"rec:">> \o NumStr(req.now)

\* C16 as stated: two applications of resolveEntityKey to the same record at
\* any two times yield records with the same entityKey.
C16_SameKeyAtAnyTime ==
  Applied => res.records[3].entityKey = res.records[1].entityKey

\* the record carries a key, a fsic number or an id
HasKeySource(r) ==
  \/ r.entityKey # Undef /\ r.entityKey # <<>>
  \/ FsicOf(r) # <<>>
  \/ r.id # Undef /\ r.id # <<>>

\* C16 amended: two applications to the same record yield the same
\* entityKey when the record carries a key, a fsic number or an id; for a
\* record with none of them each application yields "rec:" and the instant
\* of the application.
C16_SameKeyUnlessTimestamp ==
  Applied =>
    IF HasKeySource(req.record)
      THEN res.records[3] = res.records[1]
      ELSE /\ res.records[1].entityKey = <<"rec:">> \o NumStr(req.now)
           /\ res.records[3].entityKey = <<"rec:">> \o NumStr(req.again)

\* a record with neither key, fsic number nor id was resolved at two
\* different instants and got two keys
C16_Witness ==
  /\ Applied
  /\ req.now # req.again
  /\ ~HasKeySource(req.record)
  /\ res.records[3].entityKey # res.records[1].entityKey

\* no step removes or rewrites an event of the log: the log before the step
\* is a prefix of the log after it
HistoryOnlyGrows ==
  [][ /\ Len(history') >= Len(history)
      /\ SubSeq(history', 1, Len(history)) = history ]_vars

RangeOf(list) == {list[i] : i \in 1..Len(list)}

ArchivedRecords(arch) == UNION {RangeOf(arch[m]) : m \in DOMAIN arch}

\* the records of the archive and of the log keep their values: an archived
\* record was archived or current before the step with the same fields, and
\* the events already logged are untouched
ArchiveAndLogKeepValues ==
  /\ ArchivedRecords(archive') \subseteq (ArchivedRecords(archive) \cup RangeOf(records))
  /\ Len(history') >= Len(history)
  /\ \A i \in 1..Len(history) : history'[i].data = history[i].data

\* C18 as stated: a stored record is never edited in place: whatever the
\* operation, a record of the current store, of an archive bucket or of a
\* history event keeps the field values it was stored with, and a record
\* that was not stored before is a new record.
C18_NeverEditedInPlace ==
  [][ /\ ArchiveAndLogKeepValues
      /\ \A j \in 1..Len(records') :
            \/ records'[j] \in RangeOf(records)
            \/ /\ req'.op = "post"
               /\ j = Len(records')
               /\ records'[j] = res'.records[1] ]_vars

\* C18 amended: records of archive buckets and of history events are never
\* edited; a record of the current store is edited only by PUT
\* /records/:id, which replaces its fields in place and keeps its id, its
\* entityKey and its createdAt; every other operation stores new records
\* or moves or removes stored ones.
C18_EditedOnlyByPut ==
  [][ /\ ArchiveAndLogKeepValues
      /\ IF req'.op = "put"
           THEN \/ ~res'.success /\ records' = records
                \/ /\ res'.success
                   /\ Len(records') = Len(records)
                   /\ \E idx \in 1..Len(records) :
                         /\ \A j \in 1..Len(records) : j # idx => records'[j] = records[j]
                         /\ records'[idx] = res'.records[1]
                         /\ records'[idx].id = records[idx].id
                         /\ records'[idx].entityKey = records[idx].entityKey
                         /\ records'[idx].createdAt = records[idx].createdAt
           ELSE \A j \in 1..Len(records') :
                  \/ records'[j] \in RangeOf(records)
                  \/ /\ req'.op = "post"
                     /\ j = Len(records')
                     /\ records'[j] = res'.records[1] ]_vars

\* a PUT has replaced the fields of a current record while the archive and
\* the log held records
C18_Witness ==
  /\ req.op = "put" /\ res.success
  /\ \E i \in 1..Len(records) :
        /\ records[i] = res.records[1]
        /\ records[i].ownerName = Bob
        /\ records[i].updatedAt # Undef
  /\ ArchivedRecords(archive) # {}
  /\ history # <<>>

PdfStep == req'.op \in {"certificatePdf", "recordPdf"} /\ res'.status = 200

\* the stored records, current or archived, that carry the id
StoredWithId(id) == {r \in RangeOf(records) \cup ArchivedRecords(archive) : r.id = id}

\* the key-resolution half of C19: the record handed to the renderer is a
\* stored record of the requested id and carries a key
PdfRecordIsResolved ==
  [][ PdfStep =>
        /\ res'.records[1] \in StoredWithId(req'.id)
        /\ Truthy(res'.records[1].entityKey) ]_vars

\* C19: the record handed to the document renderer for a record id is
\* key-resolved and, when the log holds a renewal of that record's entity
\* key, is the latest renewed record of the entity instead of the stored
\* current or archived record.
C19_PdfRecordIsReconciled ==
  [][ PdfStep =>
        /\ Truthy(res'.records[1].entityKey)
        /\ \E r \in StoredWithId(req'.id) :
              IF RenewedEventsOf(r.entityKey) # {}
                THEN res'.records[1] = getLatestRenewedByEntityKey(r.entityKey, history, 1)
                ELSE res'.records[1] = r ]_vars

\* positions of the events of the log that the server treats as RENEWED
RenewedEvents == {i \in 1..Len(history) : history[i].action \in {"RENEWED", "renewed"}}

EntryOfEvent(e, h) ==
  /\ e.entityKey = h.entityKey
  /\ e.renewedAt = h.changedAt
  /\ e.id = h.data.id
  /\ e.ownerName = h.data.ownerName
  /\ e.fsicAppNo = h.data.fsicAppNo

ItemOfEvent(it, h) ==
  /\ it.kind = "renewed"
  /\ it.entityKey = h.entityKey
  /\ it.changedAt = h.changedAt
  /\ it.data = h.data

\* entries holds exactly one entry, or manager item, per RENEWED event of
\* the log
OnePerRenewedEvent(entries, items) ==
  /\ Len(entries) = Cardinality(RenewedEvents)
  /\ \E f \in [RenewedEvents -> 1..Len(entries)] :
        /\ \A i, j \in RenewedEvents : i # j => f[i] # f[j]
        /\ \A i \in RenewedEvents :
              IF items THEN ItemOfEvent(entries[f[i]], history[i])
              ELSE EntryOfEvent(entries[f[i]], history[i])

\* C20: the bulk listing GET /records/renewed, and the renewed items of
\* GET /manager/items, hold exactly one entry per RENEWED event of the log,
\* for every entity and not only the latest of an entity, and no entry for
\* a PREVIOUS event.
C20_ListingHasEveryRenewed ==
  [][ /\ req'.op = "listRenewed" => OnePerRenewedEvent(res'.records, FALSE)
      /\ (/\ req'.op = "managerItems"
          /\ normalize(Or(req'.scope, <<"all">>)) \in {<<"all">>, <<"renewed">>}) =>
            OnePerRenewedEvent(SelectSeq(res'.records, LAMBDA it : it.kind = "renewed"),
                               TRUE) ]_vars

\* the log holds two RENEWED events of one entity and a PREVIOUS event, and
\* the manager listing shows both renewals next to the stored records
C20_Witness ==
  /\ req.op = "managerItems" /\ req.scope = Undef
  /\ Len(res.records) = 4
  /\ \E i, j \in RenewedEvents :
        i # j /\ history[i].entityKey = keyG /\ history[j].entityKey = keyG
  /\ \E i \in 1..Len(history) : history[i].action = "PREVIOUS"

\* data is the record old with its key resolved: old itself when it carries
\* a key, and otherwise old with a key added and every other field as it was
KeyResolved(data, old) ==
  IF old.entityKey # Undef /\ old.entityKey # <<>>
    THEN data = old
    ELSE /\ data = [old EXCEPT !.entityKey = data.entityKey]
         /\ data.entityKey # Undef /\ data.entityKey # <<>>

\* C21 as stated: the PREVIOUS event of a renew carries the submitted
\* oldRecord, key-resolved, and the supplied source, or "Unknown" when no
\* source was supplied; the RENEWED event has the source "Renewed".
C21_PreviousCarriesSource ==
  [][ (RenewStep /\ res'.success) =>
        LET n == Len(history)
        IN /\ KeyResolved(history'[n + 1].data, req'.body.oldRecord)
           /\ history'[n + 1].source =
                (IF req'.body.source # Undef THEN req'.body.source ELSE <<"Unknown">>)
           /\ history'[n + 2].source = <<"Renewed">> ]_vars

\* C21 amended: as C21, with the source "Unknown" also for a supplied source
\* that is the empty string.
C21_PreviousCarriesNonEmptySource ==
  [][ (RenewStep /\ res'.success) =>
        LET n == Len(history)
        IN /\ KeyResolved(history'[n + 1].data, req'.body.oldRecord)
           /\ history'[n + 1].source =
                (IF req'.body.source # Undef /\ req'.body.source # <<>>
                   THEN req'.body.source ELSE <<"Unknown">>)
           /\ history'[n + 2].source = <<"Renewed">> ]_vars

\* a renew with a supplied source was logged after a renew with an empty
\* source
C21_Witness ==
  /\ req.op = "renew" /\ res.success
  /\ req.body.source = <<"Manual">>
  /\ Len(history) = 4
  /\ history[1].source = <<"Unknown">> /\ history[1].data = oldPct
  /\ history[3].source = <<"Manual">>
  /\ history[4].source = <<"Renewed">>

\* the value of an allow-listed field of the built record: the field of u,
\* or its first legacy alias that u carries, or ""
Copied(value, names) ==
  LET given == SelectSeq(names, LAMBDA v : v # Undef)
  IN value = (IF given = <<>> THEN <<>> ELSE given[1])

\* C22: the record built by a renew holds the allow-listed fields copied
\* from updatedRecord plus id, entityKey, teamLeader, renewedAt and
\* createdAt and nothing else: the id, createdAt, entityKey and every other
\* field of updatedRecord are dropped, teamLeader is updatedRecord's or "",
\* and createdAt equals renewedAt.
C22_RenewedRecordIsSanitized ==
  [][ (RenewStep /\ res'.success) =>
        LET n == Len(history)
            u == req'.body.updatedRecord
            new == res'.records[1]
        IN /\ new = history'[n + 2].data
           /\ Copied(new.fsicAppNo, <<u.fsicAppNo, u.FSIC_APP_NO, u.FSIC_NUMBER>>)
           /\ Copied(new.ownerName, <<u.ownerName, u.OWNERS_NAME>>)
           /\ new.id \in {NumStr(t) : t \in Times}
           /\ new.entityKey = history'[n + 2].entityKey
           /\ new.teamLeader = (IF u.teamLeader # Undef THEN u.teamLeader ELSE <<>>)
           /\ new.renewedAt = history'[n + 2].changedAt
           /\ new.createdAt = new.renewedAt
           /\ new.junk = Undef /\ new.updatedAt = Undef
           /\ new.FSIC_APP_NO = Undef /\ new.FSIC_NUMBER = Undef
           /\ new.OWNERS_NAME = Undef ]_vars

\* a renew under an explicit key was built from an updatedRecord that
\* carries an id, a key, a teamLeader and a field outside the allow-list
C22_Witness ==
  /\ req.op = "renew" /\ res.success
  /\ req.body.updatedRecord = upd7
  /\ res.records[1].fsicAppNo = <<"H">>
  /\ res.records[1].teamLeader = <<"Lee">>
  /\ res.records[1].id # <<"7">>
  /\ res.records[1].entityKey = keyG
  /\ res.records[1].junk = Undef

\* the ids of the records the three stores hold
StoredIds ==
  {r.id : r \in RangeOf(records) \cup ArchivedRecords(archive)}
    \cup {history[i].data.id : i \in 1..Len(history)}

\* C23: the id of the record built by a renew differs from the id of every
\* record already present in the history log, the current store and the
\* archive.
C23_RenewIdIsFresh ==
  [][ (RenewStep /\ res'.success) => res'.records[1].id \notin StoredIds ]_vars

\* the record carries a key that is not empty after trimming
HasNormalizedKey(r) == Trim(Coalesce(r.entityKey, <<>>)) # <<>>

\* C24: every record of the current store, of every archive bucket and of
\* the data of every history event has an entityKey that is non-empty after
\* normalization.
C24_EveryRecordHasKey ==
  /\ \A r \in RangeOf(records) \cup ArchivedRecords(archive) : HasNormalizedKey(r)
  /\ \A i \in 1..Len(history) : HasNormalizedKey(history[i].data)

\* C25: PUT /records/:id and DELETE /records/:id match ids alike: the update
\* answers "Record not found" exactly when the removal with the same id
\* would remove no record, and the record it updates is one the removal
\* would remove.
C25_PutMatchesDelete ==
  [][ req'.op = "put" =>
        /\ (res'.status = 404) <=> (WithoutId(records, req'.id) = records)
        /\ res'.success =>
             \E j \in 1..Len(records) :
                /\ records[j].id = req'.id
                /\ records'[j] = res'.records[1] ]_vars

\* the data of the RENEWED event of key k that was appended last, Null when
\* the log holds none
LastAppendedRenewal(k, hist) ==
  LET own == {i \in 1..Len(hist) :
                hist[i].action = "RENEWED" /\ hist[i].entityKey = Trim(k)}
  IN IF own = {} THEN Null
     ELSE hist[CHOOSE i \in own : \A j \in own : j <= i].data

\* C26: after successful renews under a clock that never goes backwards,
\* latestRenewed(k) is the newRecord answered by the most recent successful
\* renew whose effective key is k, also when renews read the same instant,
\* and a renew of another key leaves latestRenewed(k) as it was.
C26_LatestIsMostRecentRenew ==
  /\ [](\A k \in ClockKeys :
          getLatestRenewedByEntityKey(k, history, 1) = LastAppendedRenewal(k, history))
  /\ [][ (RenewStep /\ res'.success) =>
           LET ek == history'[Len(history')].entityKey
           IN \A k \in ClockKeys :
                IF Trim(k) = ek
                  THEN getLatestRenewedByEntityKey(k, history', 1) = res'.records[1]
                  ELSE getLatestRenewedByEntityKey(k, history', 1)
                         = getLatestRenewedByEntityKey(k, history, 1) ]_vars

\* two renews of one key read the same instant and built different records,
\* and the lookup answered the record of the second
C26_Witness ==
  /\ req.op = "getRenewed" /\ req.entityKey = keyGpad
  /\ Len(history) = 4
  /\ history[2].entityKey = keyG /\ history[4].entityKey = keyG
  /\ history[2].changedAt = history[4].changedAt
  /\ history[2].data.ownerName # history[4].data.ownerName
  /\ res.records = <<history[4].data>>

\* C27: a renew, successful or failed, leaves the current store and the
\* archive unchanged, and the record it builds is held by the history log
\* only; a close-month, successful or failed, leaves the history log
\* unchanged, so latestRenewed(k) is the same before and after it for
\* every k.
C27_RenewAndCloseAreDisjoint ==
  [][ /\ RenewStep =>
           /\ records' = records
           /\ archive' = archive
           /\ res'.success =>
                /\ res'.records[1] = history'[Len(history')].data
                /\ res'.records[1] \notin RangeOf(records') \cup ArchivedRecords(archive')
      /\ CloseMonthStep =>
           /\ history' = history
           /\ \A k \in AllKeys :
                getLatestRenewedByEntityKey(k, history', 1)
                  = getLatestRenewedByEntityKey(k, history, 1) ]_vars

\* a renew was logged while the current store and the archive held records
C27_Witness ==
  /\ req.op = "renew" /\ res.success
  /\ records # <<>>
  /\ ArchivedRecords(archive) # {}
  /\ Len(history) = 2
  /\ getLatestRenewedByEntityKey(history[2].entityKey, history, 1) = res.records[1]

\* number of records held by a current store and an archive
CountOf(recs, arch) == Len(recs) + SumLen(arch, DOMAIN arch)

\* C28: a successful close-month appends the current records, in their
\* order, after the records the bucket of the month already held and leaves
\* the bucket of every other month unchanged, so current store and archive
\* hold as many records after it as before.
C28_CloseMonthKeepsEveryRecord ==
  [][ (CloseMonthStep /\ res'.success) =>
        /\ records' = <<>>
        /\ DOMAIN archive' = DOMAIN archive \cup {res'.month}
        /\ archive'[res'.month] = Bucket(archive, res'.month) \o records
        /\ \A m \in DOMAIN archive : m # res'.month => archive'[m] = archive[m]
        /\ CountOf(records', archive') = CountOf(records, archive) ]_vars

\* a close-month archived a record into the bucket of a second month while
\* the bucket of the first month held a record
C28_Witness ==
  /\ req.op = "closeMonth" /\ res.success /\ res.archivedCount = 1
  /\ Cardinality(DOMAIN archive) = 2
  /\ \A m \in DOMAIN archive : Len(archive[m]) = 1

\* the key of the latest renewed record of k is the normalized k
LatestHasLookupKey ==
  \A k \in AllKeys :
    LET latest == getLatestRenewedByEntityKey(k, history, 1)
    IN latest # Null => latest.entityKey = Trim(Coalesce(k, <<>>))

\* C29 as stated: when latestRenewed(k) is not null its entityKey is the
\* normalized k, so the entry of the export for an archived record has the
\* entity key of the archived record.
C29_ExportKeepsKey ==
  /\ LatestHasLookupKey
  /\ \A m \in DOMAIN archive :
       \A i \in 1..Len(archive[m]) :
         ExportList(m, 1)[i].entityKey = archive[m][i].entityKey

\* C29 amended: as C29, with the entry of the export carrying the
\* normalized key of the archived record when the key has a renewal, and
\* the archived record's own key otherwise.
C29_ExportKeepsNormalizedKey ==
  /\ LatestHasLookupKey
  /\ \A m \in DOMAIN archive :
       \A i \in 1..Len(archive[m]) :
         LET r == archive[m][i]
             entry == ExportList(m, 1)[i]
         IN IF RenewedOf(r.entityKey) # {}
              THEN entry.entityKey = Trim(r.entityKey)
              ELSE entry.entityKey = r.entityKey

\* the export replaced an archived record whose key carries surrounding
\* whitespace by the renewal of its entity
C29_Witness ==
  /\ req.op = "export" /\ res.status = 200
  /\ \E m \in DOMAIN archive :
       \E i \in 1..Len(archive[m]) :
         /\ normalize(req.month) = m
         /\ archive[m][i].entityKey = keyGpad
         /\ res.records[i].entityKey = keyG
         /\ res.records[i].renewedAt # Undef

\* C30: PUT /records/:id changes neither the id nor the entityKey of a
\* record of the current store, also when it changes fsicAppNo to a value
\* that derives another key, and leaves the number and order of the records
\* of the current store, the archive and the history log unchanged.
C30_PutKeepsIdAndKey ==
  [][ req'.op = "put" =>
        /\ archive' = archive
        /\ history' = history
        /\ Len(records') = Len(records)
        /\ \A j \in 1..Len(records) :
              /\ records'[j].id = records[j].id
              /\ records'[j].entityKey = records[j].entityKey ]_vars

\* a PUT gave a current record of the key "fsic:G" the fsicAppNo "H" while
\* the archive and the log held records
C30_Witness ==
  /\ req.op = "put" /\ res.success
  /\ req.body.fsicAppNo = <<"H">>
  /\ \E i \in 1..Len(records) :
        /\ records[i] = res.records[1]
        /\ records[i].fsicAppNo = <<"H">>
        /\ records[i].entityKey = keyG
        /\ records[i].id = req.id
  /\ ArchivedRecords(archive) # {}
  /\ Len(history) = 2
====
